---- MODULE Spec2Model ----
(***************************************************************************)
(* Model of flir_ptu_driver/src/node.cpp: the Node class (session          *)
(* lifecycle, the five command callbacks, the polling callback and the     *)
(* diagnostics task) and main()'s supervisor loop.                         *)
(*                                                                         *)
(* Two specifications are given.                                           *)
(*   Spec      a constructed Node driven through its public interface by  *)
(*             an arbitrary caller (the transport, a test harness).        *)
(*   MainSpec  main(): the Node as main() constructs and drives it, with   *)
(*             callbacks dispatched only from ros::spin().                 *)
(*                                                                         *)
(* Numbers.  A double is a fixed-point integer with Unit parts per 1.0     *)
(* (angles in rad, directions).  Time is in microseconds, the resolution   *)
(* of boost::posix_time::microsec_clock.                                   *)
(***************************************************************************)
EXTENDS Integers, Sequences, FiniteSets, TLC

\* ------------------------------------------------------------------ numbers

\* Fixed-point resolution of a double: Unit parts per 1.0.
Unit == 10 * 1000

Abs(n) == IF n < 0 THEN -n ELSE n

\* Integer division truncating toward zero, as C++ does.
TruncDiv(a, b) == IF a >= 0 THEN a \div b ELSE -((-a) \div b)

\* double * double (node.cpp:261-262).
Mul(a, b) == TruncDiv(a * b, Unit)

\* Significand width of a float.
FloatBits == 24

RECURSIVE FloatUlp(_)
\* The spacing of floats around the magnitude m (in fixed-point parts).
FloatUlp(m) == IF m < 2 ^ FloatBits THEN 1 ELSE 2 * FloatUlp(m \div 2)

\* double -> float narrowing of `float pan = ...` (node.cpp:261-262, 311-312):
\* the value keeps FloatBits significant bits.
ToFloat(v) ==
  LET u == FloatUlp(Abs(v))
  IN  IF v >= 0 THEN (v \div u) * u ELSE -(((-v) \div u) * u)

\* abs() of <cstdlib>: int abs(int); the double argument is converted to int
\* (truncated toward zero) first.  The result is an int, here in whole units.
AbsInt(v) == Abs(TruncDiv(v, Unit))

\* time_duration::total_milliseconds(): whole milliseconds, truncated.
MicrosPerMilli == 1000

total_milliseconds(d) == TruncDiv(d, MicrosPerMilli)

\* ------------------------------------------------------------ configuration

\* ~jog_step_rads default (0.01 rad) and ~jog_period_min_millis default (250).
DefaultJogStep == 100

DefaultJogPeriodMillis == 250

\* ros::Duration(1.0).sleep() of main(), in microseconds.
RetryDelayMicros == 1000000

\* The parameter sets a run draws ~jog_step_rads / ~jog_period_min_millis from;
\* the period is a whole number of milliseconds, as its name and default are.
Configs ==
  { [step |-> DefaultJogStep, limit |-> DefaultJogPeriodMillis],
    [step |-> 2 * DefaultJogStep, limit |-> 100] }

\* ~default_velocity values.
DefaultVelocities == {9}

\* Which abs() the unqualified call of node.cpp:255 resolves to in the build:
\* ::abs(int) of <stdlib.h>, or std::abs(double) where a header has placed
\* the <cmath> overloads in the global namespace.
AbsOverloads == {"int", "double"}

\* ------------------------------------------------------------------- inputs

\* geometry_msgs::Twist angular.x / angular.y values of a jog or a
\* rotate-relative message: -1, 0, 0.5, 1, 1.5.
Directions == {-Unit, 0, Unit \div 2, Unit, Unit + Unit \div 2}

\* angular.x / angular.y of a rotate-relative message: 0 and 0.25 rad.
Offsets == {0, Unit \div 4}

\* sensor_msgs::JointState position and velocity arrays.
PositionArrays == {<<>>, <<1>>, <<1, 2>>, <<1, 2, 3>>}

VelocityArrays == {<<>>, <<4>>, <<4, 5>>, <<4, 5, 6>>}

\* PtuDirectControl: the command bytes and the declared length.
CommandBuffers == {<<>>, <<80, 80, 32>>}

DeclaredLengths == {0, 3, 5}

\* The instants the clock is read at, in microseconds: 0, 100 ms, 249.5 ms,
\* 250 ms and 300 ms after the construction of the Node.
Instants == {0, 100000, 249500, 250000, 300000}

\* A Node is connected at most MaxConnects times in a run.
MaxConnects == 2

\* ------------------------------------------------------------------- state

VARIABLES
  m_pantilt,          \* "NULL" or "PTU": Node::m_pantilt
  dryRun,             \* the PTU object's dry-run flag (PTU::setDryRun)
  subscribed,         \* the five m_*_sub subscriptions are registered
  default_velocity_,  \* Node::default_velocity_
  m_jog_step_rads_,   \* Node::m_jog_step_rads_
  m_jog_time_limit_,  \* Node::m_jog_time_limit_ (milliseconds)
  m_jog_mark_,        \* Node::m_jog_mark_ (microseconds)
  absOverload,        \* the abs() the build resolved
  clock,              \* microsec_clock::local_time()
  created,            \* number of `new PTU`
  released,           \* number of `delete m_pantilt`
  crashed,            \* the process has aborted
  lastOp,             \* the last step: operation, inputs, state at entry
  trace,              \* what the last step did, in order: protocol calls,
                      \* parameter writes, publications, registrations
  pc,                 \* main()'s position
  shutdown,           \* !ros::ok()
  hz,                 \* main()'s hz
  timerPeriod         \* the int 1 / hz given to ros::Duration, in seconds

vars ==
  << m_pantilt, dryRun, subscribed, default_velocity_, m_jog_step_rads_,
     m_jog_time_limit_, m_jog_mark_, absOverload, clock, created, released,
     crashed, lastOp, trace, pc, shutdown, hz, timerPeriod >>

nodeVars ==
  << m_pantilt, dryRun, subscribed, default_velocity_, m_jog_mark_,
     created, released, crashed >>

configVars == << m_jog_step_rads_, m_jog_time_limit_, absOverload >>

mainVars == << pc, shutdown, hz, timerPeriod >>

\* Node::ok()
ok == m_pantilt # "NULL"

\* One entry of trace.
Ev(op, arg, v, w) == [op |-> op, arg |-> arg, v |-> v, w |-> w]

\* The record of a step of the given name, taken in the current state.
Op(name) ==
  [ name     |-> name,
    wasOk    |-> ok,
    t        |-> clock,
    mark     |-> m_jog_mark_,
    x        |-> 0,
    y        |-> 0,
    position |-> <<>>,
    velocity |-> <<>>,
    command  |-> <<>>,
    length   |-> 0,
    ret      |-> TRUE,
    ub       |-> FALSE,
    initOk   |-> TRUE,
    dry      |-> FALSE,
    limit    |-> TRUE,
    afterDisconnect |-> lastOp.name = "disconnect" ]


\* --------------------------------------------------- the device protocol

\* Axis identifiers PTU_PAN and PTU_TILT.
PTU_PAN == "PAN"

PTU_TILT == "TILT"

\* A call of a PTU method.
Call(op, arg, v, w) == Ev(op, arg, v, w)

\* What the stub protocol answers to a calibration query.
Calib(kind, axis) ==
  LET k == CASE kind = "getMin" -> 1
             [] kind = "getMax" -> 2
             [] kind = "getMinSpeed" -> 3
             [] kind = "getMaxSpeed" -> 4
             [] OTHER -> 5
  IN  IF axis = PTU_PAN THEN 10 + k ELSE 20 + k

\* m_node.setParam(name, m_pantilt->kind(axis)): the query, then the write.
PublishCalib(name, kind, axis) ==
  << Call(kind, axis, 0, 0), Ev("setParam", name, Calib(kind, axis), 0) >>

\* node.cpp:177-187
PublishCalibration ==
     PublishCalib("min_tilt", "getMin", PTU_TILT)
  \o PublishCalib("max_tilt", "getMax", PTU_TILT)
  \o PublishCalib("min_tilt_speed", "getMinSpeed", PTU_TILT)
  \o PublishCalib("max_tilt_speed", "getMaxSpeed", PTU_TILT)
  \o PublishCalib("tilt_step", "getResolution", PTU_TILT)
  \o PublishCalib("min_pan", "getMin", PTU_PAN)
  \o PublishCalib("max_pan", "getMax", PTU_PAN)
  \o PublishCalib("min_pan_speed", "getMinSpeed", PTU_PAN)
  \o PublishCalib("max_pan_speed", "getMaxSpeed", PTU_PAN)
  \o PublishCalib("pan_step", "getResolution", PTU_PAN)

\* node.cpp:189-208
RegisterHandlers ==
  << Ev("advertise", "state", 0, 0),
     Ev("subscribe", "cmd", 0, 0),
     Ev("subscribe", "direct_control", 0, 0),
     Ev("subscribe", "jogging", 0, 0),
     Ev("subscribe", "rotate_relative", 0, 0),
     Ev("subscribe", "reset", 0, 0) >>

\* ------------------------------------------------------ Node::disconnect

\* Mutant: disconnect() deletes the session and keeps the stale pointer.
DisconnectPointer_Stale(p) == p

\* The body of disconnect() on pointer value p: what it does, and the
\* pointer afterwards (node.cpp:212-219).
DisconnectDeletes(p) == IF p # "NULL" THEN <<Ev("delete", "", 0, 0)>> ELSE <<>>

DisconnectPointer(p) == "NULL"

disconnect ==
  /\ trace' = DisconnectDeletes(m_pantilt)
  /\ released' = released + Len(DisconnectDeletes(m_pantilt))
  /\ m_pantilt' = DisconnectPointer(m_pantilt)
  /\ dryRun' = FALSE
  /\ lastOp' = Op("disconnect")
  /\ UNCHANGED << subscribed, default_velocity_, m_jog_mark_, created, crashed >>

\* --------------------------------------------------------- Node::connect

\* Mutant: connect() opens the link without releasing the session it has.
ConnectEntry_Keep(p) == [deletes |-> <<>>, pointer |-> p]

\* Mutant: a failed initialisation ends connect() even in a dry run.
InitFailureFatal_Always(initOk, is_dry_run) == ~initOk

\* Mutant: the limits are disabled when ~limits_enabled is true.
LimitCalls_Inverted(limit) ==
  IF limit THEN <<Ev("disableLimits", "", 0, 0)>> ELSE <<>>

\* node.cpp:116-119: entering connect() with pointer value p, an existing
\* session is disconnected first.
ConnectEntry(p) ==
  IF p # "NULL"
    THEN [deletes |-> DisconnectDeletes(p), pointer |-> DisconnectPointer(p)]
    ELSE [deletes |-> <<>>, pointer |-> p]

\* node.cpp:154-161: initialize() failed and the run is not a dry run.
InitFailureFatal(initOk, is_dry_run) == ~initOk /\ ~is_dry_run

\* node.cpp:169-173
LimitCalls(limit) ==
  IF limit THEN <<>> ELSE <<Call("disableLimits", "", 0, 0)>>

\* connect() with its inputs: whether m_ser.open() succeeds, whether
\* PTU::initialize() succeeds, and the parameters it reads.
connect(openOk, initOk, limit, is_dry_run, vel) ==
  LET entry == ConnectEntry(m_pantilt)                        \* 116-119
      pre   == entry.deletes
      open  == <<Ev("open", "", 0, 0)>>                       \* 136-143
      init  == <<Call("initialize", "", 0, 0)>>               \* 154
      dry   == <<Call("setDryRun", "", 1, 0)>>                \* 164
      lim   == LimitCalls(limit)                              \* 169-173
  IN
  /\ created < MaxConnects
  /\ default_velocity_' = vel                                  \* 130
  /\ lastOp' = [Op("connect") EXCEPT !.ret = openOk,
                                     !.initOk = (~openOk \/ initOk),
                                     !.dry = is_dry_run,
                                     !.limit = limit]
  /\ UNCHANGED << m_jog_mark_, crashed >>
  /\ IF ~openOk
       THEN \* 144-148: no session object is created
            /\ trace' = pre \o open
            /\ m_pantilt' = entry.pointer
            /\ released' = released + Len(pre)
            /\ dryRun' = FALSE
            /\ UNCHANGED << created, subscribed >>
       ELSE IF InitFailureFatal(initOk, is_dry_run)
       THEN \* 157-161: new PTU, initialize fails, disconnect(), return
            /\ trace' = pre \o open \o <<Ev("new", "", 0, 0)>> \o init
                        \o DisconnectDeletes("PTU")
            /\ m_pantilt' = DisconnectPointer("PTU")
            /\ created' = created + 1
            /\ released' = released + Len(pre) + Len(DisconnectDeletes("PTU"))
            /\ dryRun' = FALSE
            /\ UNCHANGED subscribed
       ELSE \* 162-208
            /\ trace' = pre \o open \o <<Ev("new", "", 0, 0)>> \o init
                        \o (IF initOk THEN <<>> ELSE dry) \o lim
                        \o PublishCalibration \o RegisterHandlers
            /\ m_pantilt' = "PTU"
            /\ created' = created + 1
            /\ released' = released + Len(pre)
            /\ dryRun' = ~initOk
            /\ subscribed' = TRUE

\* ------------------------------------------------------------- callbacks

\* Mutant: a handler that drops its message also forgets the session.
Dropped_Disconnects(op) ==
  /\ trace' = <<>>
  /\ lastOp' = op
  /\ m_pantilt' = "NULL"
  /\ UNCHANGED << dryRun, subscribed, default_velocity_, m_jog_mark_,
                  created, released, crashed >>

\* A handler that returns without doing anything.
Dropped(op) ==
  /\ trace' = <<>>
  /\ lastOp' = op
  /\ UNCHANGED nodeVars

\* A method called through m_pantilt == NULL is undefined behaviour: the
\* process aborts, or the call is made on an absent session.
NullCall(op, call) ==
  /\ lastOp' = [op EXCEPT !.ub = TRUE]
  /\ \E abort \in BOOLEAN :
       /\ crashed' = abort
       /\ trace' = IF abort THEN <<>> ELSE <<call>>
  /\ UNCHANGED << m_pantilt, dryRun, subscribed, default_velocity_,
                  m_jog_mark_, created, released >>

\* node.cpp:222-226.  No ok() guard.
resetCallback ==
  LET op == Op("reset") IN
  IF ok
    THEN /\ trace' = <<Call("home", "", 0, 0)>>
         /\ lastOp' = op
         /\ UNCHANGED nodeVars
    ELSE NullCall(op, Call("home", "", 0, 0))

\* node.cpp:229-238.  &*(msg->command.begin()) on an empty vector is
\* undefined behaviour; otherwise the pointer and the declared length are
\* passed on as they are.
ptuDirectControlCallback(command, length) ==
  LET op == [Op("direct") EXCEPT !.command = command, !.length = length]
      send == Call("sendCommand", "", length, Len(command))
  IN
  IF ~ok
    THEN Dropped(op)
    ELSE /\ lastOp' = [op EXCEPT !.ub = (command = <<>>)]
         /\ \E abort \in (IF command = <<>> THEN BOOLEAN ELSE {FALSE}) :
              /\ crashed' = abort
              /\ trace' = IF abort THEN <<>> ELSE <<send>>
         /\ UNCHANGED << m_pantilt, dryRun, subscribed, default_velocity_,
                         m_jog_mark_, created, released >>

\* Mutant: the elapsed time is rounded to the nearest millisecond.
JogPremature_Rounded(now) ==
  total_milliseconds(now - m_jog_mark_ + MicrosPerMilli \div 2)
    < m_jog_time_limit_

\* Mutant: the direction is passed on without the jog step.
JogOffset_Unscaled(d) == ToFloat(d)

\* Mutant: the mark moves only when offsetPosition reports success.
JogMarkAfter_OnSuccess(now, ret) == IF ret THEN now ELSE m_jog_mark_

\* node.cpp:247-253: the jog arrives before the minimum period has elapsed.
JogPremature(now) ==
  total_milliseconds(now - m_jog_mark_) < m_jog_time_limit_

\* node.cpp:255: abs(msg->angular.x) != 1 && abs(msg->angular.y) != 1
JogOutOfRange(x, y) ==
  IF absOverload = "int"
    THEN AbsInt(x) # 1 /\ AbsInt(y) # 1
    ELSE Abs(x) # Unit /\ Abs(y) # Unit

\* node.cpp:261-263: the offsets given to offsetPosition.
JogOffset(d) == ToFloat(Mul(d, m_jog_step_rads_))

\* node.cpp:267: the mark after an accepted jog.
JogMarkAfter(now, ret) == now

\* node.cpp:241-269
ptuJogCallback(x, y) ==
  LET op == [Op("jog") EXCEPT !.x = x, !.y = y]
      now == clock
  IN
  IF ~ok \/ JogPremature(now) \/ JogOutOfRange(x, y)
    THEN Dropped(op)
    ELSE \E ret \in BOOLEAN :
           /\ trace' = <<Call("offsetPosition", "", JogOffset(x), JogOffset(y))>>
           /\ m_jog_mark_' = JogMarkAfter(now, ret)
           /\ lastOp' = [op EXCEPT !.ret = ret]
           /\ UNCHANGED << m_pantilt, dryRun, subscribed, default_velocity_,
                           created, released, crashed >>

\* Mutant: any array holding at least two positions is accepted.
CmdPositionValid_AtLeastTwo(position) == Len(position) >= 2

\* Mutant: the supplied velocities are used as far as they go.
CmdSpeeds_Mixed(velocity) ==
  << IF Len(velocity) >= 1 THEN velocity[1] ELSE default_velocity_,
     IF Len(velocity) >= 2 THEN velocity[2] ELSE default_velocity_ >>

\* node.cpp:277: the position array is accepted.
CmdPositionValid(position) == Len(position) = 2

\* node.cpp:287-297: the two speeds <<pan, tilt>>.
CmdSpeeds(velocity) ==
  IF Len(velocity) = 2
    THEN <<velocity[1], velocity[2]>>
    ELSE <<default_velocity_, default_velocity_>>

\* node.cpp:299-302
CmdCalls(position, speeds) ==
  << Call("setPosition", PTU_PAN, position[1], 0),
     Call("setPosition", PTU_TILT, position[2], 0),
     Call("setSpeed", PTU_PAN, speeds[1], 0),
     Call("setSpeed", PTU_TILT, speeds[2], 0) >>

\* node.cpp:272-303
cmdCallback(position, velocity) ==
  LET op == [Op("cmd") EXCEPT !.position = position, !.velocity = velocity] IN
  IF ~ok \/ ~CmdPositionValid(position)
    THEN Dropped(op)
    ELSE /\ trace' = CmdCalls(position, CmdSpeeds(velocity))
         /\ lastOp' = op
         /\ UNCHANGED nodeVars

\* Mutant: rotate-relative shares the jog throttle and moves its mark.
rotateRelativeCallback_Throttled(x, y) ==
  LET op == [Op("rotate") EXCEPT !.x = x, !.y = y] IN
  IF ~ok \/ JogPremature(clock)
    THEN Dropped(op)
    ELSE \E ret \in BOOLEAN :
           /\ trace' = <<Call("offsetPosition", "", ToFloat(x), ToFloat(y))>>
           /\ m_jog_mark_' = clock
           /\ lastOp' = [op EXCEPT !.ret = ret]
           /\ UNCHANGED << m_pantilt, dryRun, subscribed, default_velocity_,
                           created, released, crashed >>

\* node.cpp:305-317
rotateRelativeCallback(x, y) ==
  LET op == [Op("rotate") EXCEPT !.x = x, !.y = y] IN
  IF ~ok
    THEN Dropped(op)
    ELSE \E ret \in BOOLEAN :
           /\ trace' = <<Call("offsetPosition", "", ToFloat(x), ToFloat(y))>>
           /\ lastOp' = [op EXCEPT !.ret = ret]
           /\ UNCHANGED nodeVars


\* What the stub protocol answers to getPosition / getSpeed on the two axes.
Readings ==
  { [pan |-> 1, tilt |-> 2, panspeed |-> 3, tiltspeed |-> 4],
    [pan |-> 5, tilt |-> 5, panspeed |-> 0, tiltspeed |-> 7] }

\* PTU_POSITION / PTU_VELOCITY answers of getMode.
Modes == {"PTU_POSITION", "PTU_VELOCITY"}

\* ~joint_name_prefix (node.cpp:98).
m_joint_name_prefix == "ptu_"

\* node.cpp:318-322: the mode query and the status entry.
DiagnosticsEvents(mode) ==
  << Call("getMode", mode, 0, 0),
     Ev("stat.add", IF mode = "PTU_POSITION" THEN "Position" ELSE "Velocity",
        0, 0) >>

\* node.cpp:318-322.  No ok() guard.
produce_diagnostics ==
  LET op == Op("diagnostics") IN
  IF ok
    THEN \E mode \in Modes :
           /\ trace' = DiagnosticsEvents(mode)
           /\ lastOp' = op
           /\ UNCHANGED nodeVars
    ELSE NullCall(op, Call("getMode", "", 0, 0))

\* Mutant: the message carries the tilt speed on the pan entry and the pan
\* speed on the tilt entry.
SnapshotEvents_SpeedsSwapped(r) ==
  << Call("getPosition", PTU_PAN, r.pan, 0),
     Call("getPosition", PTU_TILT, r.tilt, 0),
     Call("getSpeed", PTU_PAN, r.panspeed, 0),
     Call("getSpeed", PTU_TILT, r.tiltspeed, 0),
     Ev("joint_state", m_joint_name_prefix \o "pan", r.pan, r.tiltspeed),
     Ev("joint_state", m_joint_name_prefix \o "tilt", r.tilt, r.panspeed),
     Ev("publish", "state", 0, 0) >>

\* node.cpp:334-352: the four reads, the message, its publication.
SnapshotEvents(r) ==
  << Call("getPosition", PTU_PAN, r.pan, 0),
     Call("getPosition", PTU_TILT, r.tilt, 0),
     Call("getSpeed", PTU_PAN, r.panspeed, 0),
     Call("getSpeed", PTU_TILT, r.tiltspeed, 0),
     Ev("joint_state", m_joint_name_prefix \o "pan", r.pan, r.panspeed),
     Ev("joint_state", m_joint_name_prefix \o "tilt", r.tilt, r.tiltspeed),
     Ev("publish", "state", 0, 0) >>

\* node.cpp:354: m_updater->update() runs the task registered at node.cpp:96,
\* produce_diagnostics.
UpdaterEvents(mode) == <<Ev("update", "", 0, 0)>> \o DiagnosticsEvents(mode)

\* Mutant: the poll tick runs the diagnostics task before its guard.
spinCallback_Unguarded ==
  LET op == Op("spin") IN
  IF ~ok
    THEN NullCall(op, Call("getMode", "", 0, 0))
    ELSE \E r \in Readings, mode \in Modes :
           /\ trace' = SnapshotEvents(r) \o UpdaterEvents(mode)
           /\ lastOp' = op
           /\ UNCHANGED nodeVars

\* node.cpp:329-355
spinCallback ==
  LET op == Op("spin") IN
  IF ~ok
    THEN Dropped(op)
    ELSE \E r \in Readings, mode \in Modes :
           /\ trace' = SnapshotEvents(r) \o UpdaterEvents(mode)
           /\ lastOp' = op
           /\ UNCHANGED nodeVars

\* ------------------------------------------------------------------ clock

\* The next reading of microsec_clock::local_time(): time has passed, or
\* the wall clock was set back.
Tick(t) ==
  /\ t # clock
  /\ clock' = t
  /\ lastOp' = [Op("tick") EXCEPT !.t = t]
  /\ trace' = <<>>
  /\ UNCHANGED nodeVars

\* ---------------------------------------------- Spec: the Node as an object

\* The record of the construction step.
Constructed ==
  [ name |-> "Node", wasOk |-> FALSE, t |-> 0, mark |-> 0, x |-> 0, y |-> 0,
    position |-> <<>>, velocity |-> <<>>, command |-> <<>>, length |-> 0,
    ret |-> TRUE, ub |-> FALSE, initOk |-> TRUE, dry |-> FALSE,
    limit |-> TRUE, afterDisconnect |-> FALSE ]

\* The state after Node::Node (node.cpp:91-103), the clock's origin being
\* the time of construction.  default_velocity_ is not initialised there.
NodeConstructed ==
  /\ m_pantilt = "NULL"
  /\ dryRun = FALSE
  /\ subscribed = FALSE
  /\ default_velocity_ \in DefaultVelocities
  /\ \E c \in Configs :
       /\ m_jog_step_rads_ = c.step
       /\ m_jog_time_limit_ = c.limit
  /\ absOverload \in AbsOverloads
  /\ clock = 0
  /\ m_jog_mark_ = 0
  /\ created = 0
  /\ released = 0
  /\ crashed = FALSE
  /\ lastOp = Constructed
  /\ trace = <<>>

Init ==
  /\ NodeConstructed
  /\ pc = "object"
  /\ shutdown = FALSE
  /\ hz = 1
  /\ timerPeriod = 0

Connect ==
  \E openOk \in BOOLEAN, initOk \in BOOLEAN, limit \in BOOLEAN,
     is_dry_run \in BOOLEAN, vel \in DefaultVelocities :
    connect(openOk, initOk, limit, is_dry_run, vel)

Disconnect == disconnect

Reset == resetCallback

Direct ==
  \E command \in CommandBuffers, length \in DeclaredLengths :
    ptuDirectControlCallback(command, length)

Jog == \E x \in Directions, y \in Directions : ptuJogCallback(x, y)

Cmd ==
  \E position \in PositionArrays, velocity \in VelocityArrays :
    cmdCallback(position, velocity)

Rotate == \E x \in Offsets, y \in Offsets : rotateRelativeCallback(x, y)

Poll == spinCallback

Diagnostics == produce_diagnostics

Time == \E t \in Instants : Tick(t)

\* A call of one of the Node's methods by its user.
Called(method) ==
  /\ ~crashed
  /\ method
  /\ UNCHANGED << clock, configVars, mainVars >>

Next ==
  \/ Called(Connect)
  \/ Called(Disconnect)
  \/ Called(Reset)
  \/ Called(Direct)
  \/ Called(Jog)
  \/ Called(Cmd)
  \/ Called(Rotate)
  \/ Called(Poll)
  \/ Called(Diagnostics)
  \/ ~crashed /\ Time /\ UNCHANGED << configVars, mainVars >>

Spec == Init /\ [][Next]_vars


\* ------------------------------------------------------ MainSpec: main()

\* ~hz values (node.cpp:372).
HzValues == {1, 10}

\* A step of main() itself: no callback runs.
MainOp(name) ==
  /\ lastOp' = Op(name)
  /\ trace' = <<>>

\* node.cpp:364: while (ros::ok())
LoopTest ==
  /\ ~crashed
  /\ pc = "loop"
  /\ pc' = IF shutdown THEN "exit" ELSE "construct"
  /\ MainOp("loop")
  /\ UNCHANGED << nodeVars, configVars, clock, shutdown, hz, timerPeriod >>

\* node.cpp:367: flir_ptu_driver::Node ptu_node(n) (node.cpp:91-103)
Construct ==
  /\ ~crashed
  /\ pc = "construct"
  /\ pc' = "connect"
  /\ m_pantilt' = "NULL"
  /\ m_jog_mark_' = clock
  /\ subscribed' = FALSE
  /\ dryRun' = FALSE
  /\ MainOp("Node")
  /\ UNCHANGED << default_velocity_, created, released, crashed, configVars,
                  clock, shutdown, hz, timerPeriod >>

\* node.cpp:368: ptu_node.connect()
MainConnect ==
  /\ ~crashed
  /\ pc = "connect"
  /\ pc' = "timer"
  /\ Connect
  /\ UNCHANGED << configVars, clock, shutdown, hz, timerPeriod >>

\* node.cpp:371-374: the timer's period is the int 1 / hz.
CreateTimer ==
  /\ ~crashed
  /\ pc = "timer"
  /\ pc' = "spin"
  /\ \E h \in HzValues :
       /\ hz' = h
       /\ timerPeriod' = TruncDiv(1, h)
  /\ MainOp("createTimer")
  /\ UNCHANGED << nodeVars, configVars, clock, shutdown >>

\* ros::spin() is dispatching callbacks: node.cpp:377, before shutdown.
Spinning == ~crashed /\ pc = "spin" /\ ~shutdown

\* The timer fires.
TimerCallback ==
  /\ Spinning
  /\ spinCallback
  /\ UNCHANGED << configVars, clock, mainVars >>

\* A message arrives on one of the five subscriptions and ros::spin()
\* runs its callback.
Message(callback) ==
  /\ Spinning
  /\ subscribed
  /\ callback
  /\ UNCHANGED << configVars, clock, mainVars >>

\* The shutdown signal.
Shutdown ==
  /\ ~crashed
  /\ ~shutdown
  /\ pc # "exit"
  /\ shutdown' = TRUE
  /\ MainOp("shutdown")
  /\ UNCHANGED << nodeVars, configVars, clock, pc, hz, timerPeriod >>

\* node.cpp:377: ros::spin() returns once the node is shut down.
SpinReturn ==
  /\ ~crashed
  /\ pc = "spin"
  /\ shutdown
  /\ pc' = "check"
  /\ MainOp("spinReturn")
  /\ UNCHANGED << nodeVars, configVars, clock, shutdown, hz, timerPeriod >>

\* node.cpp:379
Check ==
  /\ ~crashed
  /\ pc = "check"
  /\ pc' = IF ~ok THEN "sleep" ELSE "destroy"
  /\ MainOp("check")
  /\ UNCHANGED << nodeVars, configVars, clock, shutdown, hz, timerPeriod >>

\* node.cpp:381-382: the retry delay.
Sleep ==
  /\ ~crashed
  /\ pc = "sleep"
  /\ pc' = "destroy"
  /\ clock' = clock + RetryDelayMicros
  /\ lastOp' = [Op("sleep") EXCEPT !.t = clock + RetryDelayMicros]
  /\ trace' = <<>>
  /\ UNCHANGED << nodeVars, configVars, shutdown, hz, timerPeriod >>

\* node.cpp:384: the end of the loop body destroys the timer and the Node
\* (node.cpp:105-109).
Destroy ==
  /\ ~crashed
  /\ pc = "destroy"
  /\ pc' = "loop"
  /\ trace' = DisconnectDeletes(m_pantilt)
  /\ released' = released + Len(DisconnectDeletes(m_pantilt))
  /\ m_pantilt' = DisconnectPointer(m_pantilt)
  /\ dryRun' = FALSE
  /\ subscribed' = FALSE
  /\ lastOp' = Op("~Node")
  /\ UNCHANGED << default_velocity_, m_jog_mark_, created, crashed,
                  configVars, clock, shutdown, hz, timerPeriod >>

MainTime ==
  /\ ~crashed
  /\ pc # "exit"
  /\ Time
  /\ UNCHANGED << configVars, mainVars >>

\* The steps main() takes by itself.
MainProgram ==
  \/ LoopTest
  \/ Construct
  \/ MainConnect
  \/ CreateTimer
  \/ SpinReturn
  \/ Check
  \/ Sleep
  \/ Destroy

MainNext ==
  \/ MainProgram
  \/ TimerCallback
  \/ Message(Reset)
  \/ Message(Direct)
  \/ Message(Jog)
  \/ Message(Cmd)
  \/ Message(Rotate)
  \/ Shutdown
  \/ MainTime

\* The state main() starts in: no Node exists yet.
MainInit ==
  /\ NodeConstructed
  /\ pc = "loop"
  /\ shutdown = FALSE
  /\ hz = 1
  /\ timerPeriod = 0

\* main() keeps running and the timer keeps firing; the shutdown signal and
\* the messages come from outside and need not come.
MainSpec ==
  /\ MainInit
  /\ [][MainNext]_vars
  /\ WF_vars(MainProgram)
  /\ WF_vars(TimerCallback)

\* ------------------------------------------------------------------ claims

\* The five command handlers.
Handlers == {"cmd", "jog", "direct", "reset", "rotate"}

\* The last step was the named handler, entered with a session present.
Connected(name) == lastOp.name = name /\ lastOp.wasOk

\* Time between the last accepted jog and the arrival of the last step.
Elapsed == lastOp.t - lastOp.mark

\* The configured minimum jog period, in microseconds.
MinPeriod == m_jog_time_limit_ * MicrosPerMilli

\* The last step called offsetPosition exactly once, with the direction
\* scaled by the jog step on each axis.
JogApplied ==
  /\ Len(trace) = 1
  /\ trace[1].op = "offsetPosition"
  /\ trace[1].v * Unit = lastOp.x * m_jog_step_rads_
  /\ trace[1].w * Unit = lastOp.y * m_jog_step_rads_

\* C1: a command handler entered while no session exists (ok() false) is a
\* no-op: the protocol receives no call and the absent session is not
\* touched.  Stated for all five handlers, reset included.
C1_DisconnectedHandlerIsNoOp ==
  (lastOp.name \in Handlers /\ ~lastOp.wasOk)
    => (trace = <<>> /\ ~lastOp.ub /\ ~crashed)

\* C3: a direct command whose declared length exceeds the size of its buffer
\* is rejected on a connected session: sendCommand is not called with it.
C3_OverlongDirectRejected ==
  (Connected("direct") /\ lastOp.length > Len(lastOp.command))
    => \A i \in 1..Len(trace) : trace[i].op # "sendCommand"

\* C4: a jog on a connected session arriving when less than the minimum
\* period has elapsed since the last accepted jog is dropped: offsetPosition
\* is not called and the last-accepted timestamp is unchanged.
C4_PrematureJogDropped ==
  (Connected("jog") /\ Elapsed < MinPeriod)
    => (trace = <<>> /\ m_jog_mark_ = lastOp.mark)

\* A well-formed jog was dropped 50 ms after an accepted jog had moved the
\* mark to t = 250 ms.
C4_Witness ==
  /\ Connected("jog")
  /\ m_jog_time_limit_ = DefaultJogPeriodMillis
  /\ lastOp.mark = 250000
  /\ lastOp.t = 300000
  /\ Abs(lastOp.x) = Unit
  /\ trace = <<>>
  /\ m_jog_mark_ = lastOp.mark

\* The scenario's setting: jog step 0.01 rad, minimum period 250 ms, a jog
\* {pan: 1, tilt: 0} on a connected session whose last-accepted timestamp
\* is still the session start, t = 0.
Scenario ==
  /\ m_jog_step_rads_ = DefaultJogStep
  /\ m_jog_time_limit_ = DefaultJogPeriodMillis
  /\ Connected("jog")
  /\ lastOp.x = Unit
  /\ lastOp.y = 0
  /\ lastOp.mark = 0

\* The jog of the scenario was accepted with offset (0.01, 0).
ScenarioAccepted ==
  /\ trace = <<Call("offsetPosition", "", Unit \div 100, 0)>>
  /\ m_jog_mark_ = lastOp.t

\* The jog of the scenario was rejected.
ScenarioRejected == trace = <<>> /\ m_jog_mark_ = 0

\* C5, as claimed: in the scenario the jog at t = 0 is accepted with offset
\* (0.01, 0), the jog at t = 100 ms is rejected and the jog at t = 300 ms is
\* accepted with offset (0.01, 0).
C5_ScenarioAsClaimed ==
  Scenario =>
    /\ lastOp.t = 0 => ScenarioAccepted
    /\ lastOp.t = 100000 => ScenarioRejected
    /\ lastOp.t = 300000 => ScenarioAccepted

\* C5, amended: in the scenario the jog at t = 0 is rejected (no time has
\* elapsed since the session start, which is below the minimum period), the
\* jog at t = 100 ms is rejected, and the jog at t = 300 ms is accepted with
\* offset (0.01, 0).
C5_ScenarioAmended ==
  Scenario =>
    /\ lastOp.t = 0 => ScenarioRejected
    /\ lastOp.t = 100000 => ScenarioRejected
    /\ lastOp.t = 300000 => ScenarioAccepted

\* The scenario's third jog, accepted at t = 300 ms.
C5_Witness == Scenario /\ lastOp.t = 300000 /\ ScenarioAccepted

\* C6: a jog on a connected session in which neither axis has magnitude
\* exactly 1 is dropped whatever time has elapsed: offsetPosition is not
\* called and the last-accepted timestamp is unchanged.
C6_MalformedJogDropped ==
  (Connected("jog") /\ Abs(lastOp.x) # Unit /\ Abs(lastOp.y) # Unit)
    => (trace = <<>> /\ m_jog_mark_ = lastOp.mark)

\* C7: a jog on a connected session that passes the throttle and has
\* magnitude exactly 1 on at least one axis calls offsetPosition exactly once
\* with (pan * jogStep, tilt * jogStep), and the last-accepted timestamp
\* becomes the arrival time whether the call reports success or failure.
C7_AcceptedJogApplied ==
  ( /\ Connected("jog")
    /\ Elapsed >= MinPeriod
    /\ (Abs(lastOp.x) = Unit \/ Abs(lastOp.y) = Unit) )
    => (JogApplied /\ m_jog_mark_ = lastOp.t)

\* An accepted jog whose offsetPosition call reported failure.
C7_Witness ==
  /\ Connected("jog")
  /\ Elapsed >= MinPeriod
  /\ lastOp.x = -Unit
  /\ lastOp.y = Unit + Unit \div 2
  /\ ~lastOp.ret
  /\ JogApplied
  /\ m_jog_mark_ = lastOp.t
  /\ lastOp.t # lastOp.mark

\* C8: a motion command on a connected session whose position array does
\* not hold exactly two values is dropped as a whole: no setPosition and no
\* setSpeed call, whatever the velocity array holds.
C8_BadPositionDropped ==
  (Connected("cmd") /\ Len(lastOp.position) # 2) => trace = <<>>

\* A motion command with three positions and a valid velocity was dropped.
C8_Witness ==
  /\ Connected("cmd")
  /\ Len(lastOp.position) = 3
  /\ Len(lastOp.velocity) = 2
  /\ trace = <<>>

\* The speeds C9 expects for the last motion command.
ExpectedSpeed(i) ==
  IF Len(lastOp.velocity) = 2 THEN lastOp.velocity[i] ELSE default_velocity_

\* C9: a motion command on a connected session with exactly two positions
\* makes exactly four calls in the order pan position, tilt position, pan
\* speed, tilt speed; the speeds are the supplied velocities when exactly two
\* are given and otherwise the default velocity on both axes.
C9_MotionApplied ==
  (Connected("cmd") /\ Len(lastOp.position) = 2) =>
    trace = << Call("setPosition", PTU_PAN, lastOp.position[1], 0),
               Call("setPosition", PTU_TILT, lastOp.position[2], 0),
               Call("setSpeed", PTU_PAN, ExpectedSpeed(1), 0),
               Call("setSpeed", PTU_TILT, ExpectedSpeed(2), 0) >>

\* A motion command with one velocity value ran with the default on both axes.
C9_Witness ==
  /\ Connected("cmd")
  /\ Len(lastOp.position) = 2
  /\ Len(lastOp.velocity) = 1
  /\ Len(trace) = 4
  /\ trace[3].v = default_velocity_
  /\ trace[4].v = default_velocity_

\* C10: disconnect() is idempotent: after it no session exists, it releases
\* the session at most once, and a second call right after the first
\* finds no session and releases nothing.
C10_DisconnectIdempotent ==
  lastOp.name = "disconnect" =>
    /\ ~ok
    /\ Len(trace) = (IF lastOp.wasOk THEN 1 ELSE 0)
    /\ \A i \in 1..Len(trace) : trace[i].op = "delete"
    /\ released <= created
    /\ lastOp.afterDisconnect => (~lastOp.wasOk /\ trace = <<>>)

\* disconnect() called right after a disconnect() that released a session.
C10_Witness ==
  /\ lastOp.name = "disconnect"
  /\ lastOp.afterDisconnect
  /\ released = 1
  /\ created = 1
  /\ ~ok
  /\ trace = <<>>


\* connect() has just returned to main() after failing to open the port.
OpenFailed == pc = "timer" /\ lastOp.name = "connect" /\ ~lastOp.ret

\* C2: when connect() fails to open the port, ok() stays false and, unless
\* a shutdown signal arrives, main() eventually reaches the retry delay
\* (after which it calls connect() again on a fresh Node).
C2_FailedConnectIsRetried ==
  /\ [](OpenFailed => ~ok)
  /\ (OpenFailed /\ ~shutdown) ~> (shutdown \/ pc = "sleep")

\* The last step's trace holds an entry of the given kind.
Has(op) == \E i \in 1..Len(trace) : trace[i].op = op

\* The positions of the entries of the given kind in the last step's trace.
At(op) == {i \in 1..Len(trace) : trace[i].op = op}

\* C11: the outcomes of connect().  (1) The link fails to open: no session
\* object is created and no session exists.  (2) The link opens, initialize()
\* fails and the run is not a dry run: the session is torn down and no
\* session exists.  (3) initialize() fails in a dry run: a session exists
\* and the dry-run mode is recorded on it.  (4) initialize() succeeds: a
\* session exists.  In (1) and (2) connect() publishes no calibration value
\* and registers no command handler.
C11_ConnectOutcomes ==
  lastOp.name = "connect" =>
    /\ ~lastOp.ret =>
         /\ ~ok
         /\ ~Has("new")
         /\ ~Has("setParam")
         /\ ~Has("subscribe")
    /\ (lastOp.ret /\ ~lastOp.initOk /\ ~lastOp.dry) =>
         /\ ~ok
         /\ created = released
         /\ \E i \in At("new") : \E j \in At("delete") : i < j
         /\ ~Has("setParam")
         /\ ~Has("subscribe")
    /\ (lastOp.ret /\ ~lastOp.initOk /\ lastOp.dry) =>
         /\ ok
         /\ dryRun
         /\ Has("setDryRun")
    /\ (lastOp.ret /\ lastOp.initOk) => (ok /\ ~dryRun)

\* A dry-run connect() whose initialize() failed left a session in dry-run
\* mode.
C11_Witness ==
  /\ lastOp.name = "connect"
  /\ lastOp.ret
  /\ ~lastOp.initOk
  /\ lastOp.dry
  /\ ok
  /\ dryRun

\* C12: a poll tick on a connected session reads pan position, tilt
\* position, pan speed and tilt speed, publishes exactly one message that
\* carries exactly those four values (the pan entry first, the tilt entry
\* second, the names built from the prefix), and then runs the diagnostics;
\* a poll tick without a session reads nothing, publishes nothing and runs
\* no diagnostics.
C12_PollTick ==
  lastOp.name = "spin" =>
    IF lastOp.wasOk
      THEN /\ Len(trace) = 10
           /\ trace[1].op = "getPosition" /\ trace[1].arg = PTU_PAN
           /\ trace[2].op = "getPosition" /\ trace[2].arg = PTU_TILT
           /\ trace[3].op = "getSpeed" /\ trace[3].arg = PTU_PAN
           /\ trace[4].op = "getSpeed" /\ trace[4].arg = PTU_TILT
           /\ trace[5] = Ev("joint_state", m_joint_name_prefix \o "pan",
                            trace[1].v, trace[3].v)
           /\ trace[6] = Ev("joint_state", m_joint_name_prefix \o "tilt",
                            trace[2].v, trace[4].v)
           /\ At("publish") = {7}
           /\ trace[8].op = "update"
           /\ trace[9].op = "getMode"
           /\ trace[10].op = "stat.add"
      ELSE trace = <<>>

\* A poll tick on a connected session published the readings 1, 2, 3, 4.
C12_Witness ==
  /\ lastOp.name = "spin"
  /\ lastOp.wasOk
  /\ Has("publish")
  /\ trace[5] = Ev("joint_state", "ptu_pan", 1, 3)
  /\ trace[6] = Ev("joint_state", "ptu_tilt", 2, 4)

\* The number of session objects in existence after the first k entries of
\* the last step's trace.
Live(k) ==
  (IF lastOp.wasOk THEN 1 ELSE 0)
    + Cardinality({i \in At("new") : i <= k})
    - Cardinality({i \in At("delete") : i <= k})

\* C13: connect() entered with a session releases that session before it
\* opens the link, so that two session objects never exist at once; when
\* the open then fails no session exists afterwards.
C13_ReconnectReleasesFirst ==
  lastOp.name = "connect" =>
    /\ \A k \in 0..Len(trace) : Live(k) \in {0, 1}
    /\ lastOp.wasOk =>
         /\ trace[1].op = "delete"
         /\ \A i \in At("open") \cup At("new") : i > 1
         /\ ~lastOp.ret => (~ok /\ created = released)

\* connect() on a connected Node released the session and failed to open.
C13_Witness ==
  /\ lastOp.name = "connect"
  /\ lastOp.wasOk
  /\ ~lastOp.ret
  /\ trace = <<Ev("delete", "", 0, 0), Ev("open", "", 0, 0)>>
  /\ ~ok

\* C14: rotate-relative is not rate-limited and is independent of the jog
\* throttle: on a connected session every rotate-relative command calls
\* offsetPosition exactly once with the offsets as given, however soon after
\* a jog or a rotate-relative it arrives, and leaves the last-accepted-jog
\* timestamp unchanged.
C14_RotateUnthrottled ==
  Connected("rotate") =>
    /\ trace = <<Call("offsetPosition", "", lastOp.x, lastOp.y)>>
    /\ m_jog_mark_ = lastOp.mark

\* A rotate-relative applied at the very instant a jog had been accepted.
C14_Witness ==
  /\ Connected("rotate")
  /\ lastOp.mark > 0
  /\ lastOp.t = lastOp.mark
  /\ lastOp.x = Unit \div 4
  /\ Has("offsetPosition")

\* The calibration queries of connect().
CalibrationQueries ==
  {"getMin", "getMax", "getMinSpeed", "getMaxSpeed", "getResolution"}

\* The positions of the calibration queries and parameter writes in the
\* last step's trace.
CalibrationAt ==
  {i \in 1..Len(trace) : trace[i].op \in CalibrationQueries \cup {"setParam"}}

\* The parameters connect() publishes.
CalibrationNames ==
  { "min_tilt", "max_tilt", "min_tilt_speed", "max_tilt_speed", "tilt_step",
    "min_pan", "max_pan", "min_pan_speed", "max_pan_speed", "pan_step" }

\* C15: a connect() that gets past initialisation tells the protocol to
\* disable the soft limits exactly when ~limits_enabled is false; the call
\* comes after initialize() has succeeded or its failure has been waived by
\* the dry run, and before every calibration query and parameter write; the
\* calibration values (min/max position, min/max speed and resolution of
\* both axes) are published only by a connect() that ends with a session.
C15_LimitsThenCalibration ==
  /\ Has("setParam") => (lastOp.name = "connect" /\ ok)
  /\ Has("disableLimits") => lastOp.name = "connect"
  /\ lastOp.name = "connect" =>
       /\ Has("disableLimits") <=> (ok /\ ~lastOp.limit)
       /\ \A i \in At("disableLimits") :
            /\ \E j \in At("initialize") :
                 /\ j < i
                 /\ lastOp.initOk \/ \E k \in At("setDryRun") : j < k /\ k < i
            /\ \A c \in CalibrationAt : i < c
       /\ ok => /\ {trace[i].arg : i \in At("setParam")} = CalibrationNames
                /\ Cardinality(At("setParam")) = Cardinality(CalibrationNames)
                /\ \A c \in CalibrationAt : \E j \in At("initialize") : j < c

\* A dry-run connect() with the limits switched off: initialize() failed,
\* the failure was waived, the limits were disabled, the values published.
C15_Witness ==
  /\ lastOp.name = "connect"
  /\ ~lastOp.limit
  /\ ~lastOp.initOk
  /\ Has("setDryRun")
  /\ Has("disableLimits")
  /\ Has("setParam")
  /\ ok

\* The steps that are neither connect(), disconnect() nor the destructor:
\* the five handlers, the poll tick and the diagnostics task among them.
NotConnecting == lastOp'.name \notin {"connect", "disconnect", "~Node"}

\* C16: only connect(), disconnect() and the destructor change the session
\* pointer, hence ok(): a handler, a poll tick or a diagnostics run leaves it
\* as it was, whether the message was applied, dropped, throttled, or the
\* protocol reported a failure.  While main() stays inside ros::spin() the
\* session it entered with is the session it has.
C16_OnlyConnectChangesSession ==
  [][ /\ NotConnecting => m_pantilt' = m_pantilt
      /\ (pc = "spin" /\ pc' = "spin") => m_pantilt' = m_pantilt ]_vars

\* Inside ros::spin() with a session: a jog was throttled, or a
\* rotate-relative command was answered with a failure by the protocol, and
\* the session is still there.
C16_Witness ==
  /\ pc = "spin"
  /\ ok
  /\ lastOp.wasOk
  /\ \/ lastOp.name = "jog" /\ trace = <<>>
     \/ lastOp.name = "rotate" /\ ~lastOp.ret /\ trace # <<>>

\* C17: in main(), the handlers are subscribed only as the last thing of a
\* connect() that ends with a session, and subscriptions exist only while
\* the session does; so a command handler is dispatched only with a
\* session present, and the diagnostics task runs only from a poll tick
\* that found a session: a poll tick without one does nothing.
C17_NoDispatchWithoutSession ==
  /\ Has("subscribe") =>
       /\ lastOp.name = "connect"
       /\ ok
       /\ \A i \in At("subscribe"), j \in 1..Len(trace) :
            j > i => trace[j].op = "subscribe"
  /\ subscribed => ok
  /\ lastOp.name \in Handlers => lastOp.wasOk
  /\ Has("getMode") => (lastOp.name = "spin" /\ lastOp.wasOk)
  /\ lastOp.name = "diagnostics" => lastOp.wasOk
  /\ (lastOp.name = "spin" /\ ~lastOp.wasOk) => (trace = <<>> /\ ~lastOp.ub)

\* connect() failed, main() is in ros::spin() without a session, and the
\* timer has fired: the poll tick returned at its guard.
C17_Witness ==
  /\ pc = "spin"
  /\ ~ok
  /\ ~subscribed
  /\ lastOp.name = "spin"
  /\ ~lastOp.wasOk
  /\ trace = <<>>

\* C18: for every configured poll rate hz >= 1 the period given to the
\* polling timer is strictly positive and equal to 1/hz seconds: period
\* times rate is one second.
C18_TimerPeriodIsReciprocal ==
  (pc = "spin" /\ hz >= 1) => (timerPeriod > 0 /\ timerPeriod * hz = 1)

====
